---- MODULE Spec2Model ----
(***************************************************************************)
(* Model of src/main.py: the processed_agent_data CRUD endpoints, the      *)
(* per-user WebSocket subscription registry and the fan-out performed by   *)
(* the POST handler.                                                       *)
(*                                                                         *)
(* Scheduling.  websocket_endpoint and create_processed_agent_data are     *)
(* coroutines of the single event loop; read/update/delete/list are plain  *)
(* `def` endpoints, which the framework runs on worker threads.  The POST  *)
(* handler calls the blocking database API and its only await that could   *)
(* yield (websocket.send_json, line 110) is never reached, because its     *)
(* argument json.dumps(data) is evaluated first and raises (see            *)
(* json_dumps).  So a POST handler, once started, holds the event loop     *)
(* until it returns or raises: no websocket handler step and no other POST *)
(* handler runs in between (LoopFree).  Worker-thread endpoints and the    *)
(* remote peers are not bound by the loop and interleave with its          *)
(* database calls.                                                         *)
(***************************************************************************)
EXTENDS Integers, Sequences, FiniteSets, TLC

\* ----- bounds of the model ------------------------------------------------
MaxId == 2
\* largest primary key the store hands out

NumSockets == 2
\* number of WebSocket connections ever opened

MaxBatch == 2
\* longest request body of POST /processed_agent_data/

\* ----- input domains ------------------------------------------------------
Agents == {1, 2}

Sockets == 1..NumSockets

Ids == 1..MaxId

\* Path ids of the by-id endpoints: each is absent from the table before it
\* is assigned and after its row is deleted.
ProbeIds == Ids

NoSocket == 0

\* Wire form of one element of the request body (ProcessedAgentData before
\* validation).  Floats are written in tenths (105 is 10.5).
RawItem(rs, u, ts) ==
    [road_state |-> rs,
     agent_data |-> [user_id |-> u,
                     accelerometer |-> [x |-> 10, y |-> 20, z |-> 30],
                     gps |-> [latitude |-> 105, longitude |-> 205],
                     timestamp |-> ts]]

\* The second timestamp has the form the validator's message asks for
\* (YYYY-MM-DDTHH:MM:SSZ, line 79): it carries the UTC designator.
RawItems ==
    { RawItem("dry", 1, "2024-01-01T12:00:00"),
      RawItem("wet", 2, "2024-01-01T00:00:00Z"),
      RawItem("dry", 1, "not-a-date") }

\* ----- AgentData.timestamp: str -> datetime --------------------------------
\* A datetime is its date, its time and its tzinfo: a string without an
\* offset gives a naive datetime, one with Z an aware one.
datetime(y, mo, d, h, mi, sec, tz) ==
    [date |-> <<y, mo, d>>, time |-> <<h, mi, sec>>, tzinfo |-> tz]

\* What stands for the ValueError of a string that does not parse.
ValueError == [tzinfo |-> "ValueError"]

\* datetime.fromisoformat on the strings of the model.
fromisoformat(s) ==
    CASE s = "2024-01-01T12:00:00"  -> datetime(2024, 1, 1, 12, 0, 0, "naive")
      [] s = "2024-01-01T00:00:00"  -> datetime(2024, 1, 1, 0, 0, 0, "naive")
      [] s = "2024-01-01T00:00:00Z" -> datetime(2024, 1, 1, 0, 0, 0, "UTC")
      [] OTHER -> ValueError

\* The datetime written back as a string in a response.
isoformat(dt) ==
    CASE dt = datetime(2024, 1, 1, 12, 0, 0, "naive") -> "2024-01-01T12:00:00"
      [] dt = datetime(2024, 1, 1, 0, 0, 0, "naive")  -> "2024-01-01T00:00:00"
      [] dt = datetime(2024, 1, 1, 0, 0, 0, "UTC")    -> "2024-01-01T00:00:00Z"
      [] OTHER -> "ValueError"

\* The timestamp column is DateTime without timezone (line 35): what is
\* stored and read back is a naive datetime, the tzinfo is lost.
DateTimeColumn(dt) ==
    [dt EXCEPT !.tzinfo = "naive"]

\* Validation of one body element against ProcessedAgentData / AgentData:
\* a timestamp string that does not parse is a validation error.
IsValid(raw) ==
    fromisoformat(raw.agent_data.timestamp) # ValueError

\* The validated model object handed to the handler.
Parse(raw) ==
    [type |-> "ProcessedAgentData",
     road_state |-> raw.road_state,
     agent_data |-> [user_id |-> raw.agent_data.user_id,
                     accelerometer |-> raw.agent_data.accelerometer,
                     gps |-> raw.agent_data.gps,
                     timestamp |-> fromisoformat(raw.agent_data.timestamp)]]

\* Index of the first element that fails validation, 0 if none.
FirstInvalid(body) ==
    IF \A k \in 1..Len(body) : IsValid(body[k])
    THEN 0
    ELSE CHOOSE k \in 1..Len(body) :
            /\ ~IsValid(body[k])
            /\ \A j \in 1..(k - 1) : IsValid(body[j])

Bodies ==
    UNION { [1..n -> RawItems] : n \in 0..MaxBatch }

\* ----- ProcessedAgentDataDB -------------------------------------------------
\* The row built from a validated item (the id column is the key of db).
Row(item) ==
    [road_state |-> item.road_state,
     user_id    |-> item.agent_data.user_id,
     x          |-> item.agent_data.accelerometer.x,
     y          |-> item.agent_data.accelerometer.y,
     z          |-> item.agent_data.accelerometer.z,
     latitude   |-> item.agent_data.gps.latitude,
     longitude  |-> item.agent_data.gps.longitude,
     timestamp  |-> DateTimeColumn(item.agent_data.timestamp)]

\* The response model built back from a row.
ToModel(row) ==
    [type |-> "ProcessedAgentData",
     road_state |-> row.road_state,
     agent_data |-> [user_id |-> row.user_id,
                     accelerometer |-> [x |-> row.x, y |-> row.y, z |-> row.z],
                     gps |-> [latitude |-> row.latitude, longitude |-> row.longitude],
                     timestamp |-> row.timestamp]]

\* The JSON form of a response model (response_model=ProcessedAgentData):
\* the shape of the request body, the datetime written as a string.
jsonable(model) ==
    [road_state |-> model.road_state,
     agent_data |-> [user_id |-> model.agent_data.user_id,
                     accelerometer |-> model.agent_data.accelerometer,
                     gps |-> model.agent_data.gps,
                     timestamp |-> isoformat(model.agent_data.timestamp)]]

VARIABLES
    db,             \* table processed_agent_data: id -> row
    nextId,         \* next value of the primary-key sequence
    subscriptions,  \* dict user_id -> set of websockets
    ws,             \* per connection: state and the user_id of its path
    received,       \* per connection: the messages sent to the peer, each with
                    \* the id of its row and whether the connection was
                    \* registered only after the row was committed (late)
    req,            \* the POST handler occupying the event loop, if any
    last            \* the last thing a handler did: its response or its fan-out

vars == <<db, nextId, subscriptions, ws, received, req, last>>

\* ----- helpers --------------------------------------------------------------
NoBody == [type |-> "None"]

\* The fan-out a POST response or step carries: what the call of
\* send_data_to_subscribers was given and how it ended.
NoPub ==
    [id |-> 0, user_id |-> 0, data |-> NoBody, targets |-> {}, late |-> {},
     raised |-> FALSE, failedAt |-> NoSocket, stored |-> FALSE]

\* op, status, id and body are the request and its answer (status 0: the
\* handler is still running); changed tells whether the step altered the
\* table; k is the body element the handler stopped at and done the number
\* of elements it had committed; pub is the fan-out of the step.
Event(op, status, id, body, changed, k, done, p) ==
    [op |-> op, status |-> status, id |-> id, body |-> body,
     changed |-> changed, k |-> k, done |-> done, pub |-> p]

Resp(op, status, id, body, changed, k, done) ==
    Event(op, status, id, body, changed, k, done, NoPub)

\* atCommit: the listeners of the current element's user when its row was
\* committed.
Idle ==
    [state |-> "idle", body |-> <<>>, items |-> <<>>, i |-> 0, ids |-> <<>>,
     atCommit |-> {}]

LoopFree == req.state = "idle"

\* last holds the outcome of a step until the caller has taken it.
NoEvent == Resp("none", 0, 0, NoBody, FALSE, 0, 0)

Quiet == last = NoEvent

Perms(S) ==
    { s \in [1..Cardinality(S) -> S] : \A a, b \in 1..Cardinality(S) : s[a] = s[b] => a = b }

Init ==
    /\ db = << >>
    /\ nextId = 1
    /\ subscriptions = << >>
    /\ ws = [w \in Sockets |-> [state |-> "new", user_id |-> 0]]
    /\ received = [w \in Sockets |-> <<>>]
    /\ req = Idle
    /\ last = NoEvent


\* ----- websocket_endpoint ----------------------------------------------------
\* Registration that starts a fresh set for the user on every connect.
subscribe_overwrite(subs, u, w) ==
    LET withKey == IF u \in DOMAIN subs THEN subs ELSE subs @@ (u :> {})
    IN  [withKey EXCEPT ![u] = {w}]

\* subscriptions after lines 96-98 for connection w on path user_id u.
subscribe(subs, u, w) ==
    LET withKey == IF u \in DOMAIN subs THEN subs ELSE subs @@ (u :> {})
    IN  [withKey EXCEPT ![u] = @ \cup {w}]

\* subscriptions after line 103; the key stays in the dict with its (maybe empty) set.
unsubscribe(subs, u, w) ==
    [subs EXCEPT ![u] = @ \ {w}]

\* The rows of user u in the table.
Stored(u) ==
    {id \in DOMAIN db : db[id].user_id = u}

\* Connect with a replay of a stored row of the user on connect.
Connect_replay(w, u) ==
    /\ Quiet
    /\ LoopFree
    /\ ws[w].state = "new"
    /\ \A v \in Sockets : v < w => ws[v].state # "new"
    /\ ws' = [ws EXCEPT ![w] = [state |-> "open", user_id |-> u]]
    /\ subscriptions' = subscribe(subscriptions, u, w)
    /\ received' = [received EXCEPT ![w] =
                      IF Stored(u) # {}
                      THEN LET id == CHOOSE id \in Stored(u) : TRUE
                           IN  Append(@, [id |-> id, user_id |-> u, late |-> TRUE,
                                          msg |-> <<"json", ToModel(db[id])>>])
                      ELSE @]
    /\ last' = Event("WS", 101, w, NoBody, FALSE, Cardinality(Stored(u)), 0, NoPub)
    /\ UNCHANGED <<db, nextId, req>>

\* Lines 95-98: accept (101 Switching Protocols), then register with no
\* await in between.  Nothing is sent to the new connection.  Sockets
\* numbers the connections in the order they are accepted.  The event
\* notes in k how many rows of the user were stored at registration.
Connect(w, u) ==
    /\ Quiet
    /\ LoopFree
    /\ ws[w].state = "new"
    /\ \A v \in Sockets : v < w => ws[v].state # "new"
    /\ ws' = [ws EXCEPT ![w] = [state |-> "open", user_id |-> u]]
    /\ subscriptions' = subscribe(subscriptions, u, w)
    /\ last' = Event("WS", 101, w, NoBody, FALSE, Cardinality(Stored(u)), 0, NoPub)
    /\ UNCHANGED <<db, nextId, received, req>>

\* The peer closes or drops the connection.  The handler is parked in
\* receive_text (line 101) and has not run yet: w is still registered.
ClientClose(w) ==
    /\ Quiet
    /\ ws[w].state = "open"
    /\ ws' = [ws EXCEPT ![w].state = "lost"]
    /\ UNCHANGED <<db, nextId, subscriptions, received, req, last>>

\* A disconnect handler that returns without touching the registry.
HandleDisconnect_keep(w) ==
    /\ Quiet
    /\ LoopFree
    /\ ws[w].state = "lost"
    /\ ws' = [ws EXCEPT ![w] = [state |-> "closed", user_id |-> 0]]
    /\ UNCHANGED <<db, nextId, subscriptions, received, req, last>>

\* Lines 102-103: receive_text raises WebSocketDisconnect, the handler
\* removes the connection from its user's set and returns.
HandleDisconnect(w) ==
    /\ Quiet
    /\ LoopFree
    /\ ws[w].state = "lost"
    /\ ws' = [ws EXCEPT ![w] = [state |-> "closed", user_id |-> 0]]
    /\ subscriptions' = unsubscribe(subscriptions, ws[w].user_id, w)
    /\ UNCHANGED <<db, nextId, received, req, last>>

\* ----- send_data_to_subscribers ------------------------------------------------
\* json.dumps: the default encoder serialises dict, list, str, int, float,
\* bool and None and raises TypeError for any other object.
json_dumps(obj) ==
    IF obj.type \in {"dict", "list", "str", "int", "float", "bool", "None"}
    THEN [ok |-> TRUE, text |-> <<"json", obj>>]
    ELSE [ok |-> FALSE, text |-> "TypeError"]

\* websocket.send_json(text) on connection w: fails once the peer is gone.
send_json(w, text) ==
    IF ws[w].state = "open"
    THEN [ok |-> TRUE, msg |-> <<"json", text>>]
    ELSE [ok |-> FALSE, msg |-> "RuntimeError"]

RECURSIVE SendLoop(_, _, _, _)
\* The for loop of lines 109-110 over the set in iteration order `order`,
\* from position k with the deliveries `sent` made so far.  There is no
\* try/except: the first exception leaves the loop and the function.
SendLoop(order, data, k, sent) ==
    IF k > Len(order)
    THEN [raised |-> FALSE, failedAt |-> NoSocket, exc |-> "none", sent |-> sent]
    ELSE LET j == json_dumps(data)
         IN  IF ~j.ok
             THEN [raised |-> TRUE, failedAt |-> order[k], exc |-> j.text, sent |-> sent]
             ELSE LET r == send_json(order[k], j.text)
                  IN  IF ~r.ok
                      THEN [raised |-> TRUE, failedAt |-> order[k], exc |-> r.msg, sent |-> sent]
                      ELSE SendLoop(order, data, k + 1, sent @@ (order[k] :> r.msg))

\* A lookup that returns every registered connection, whatever its user.
listeners_for_all(u) ==
    UNION {subscriptions[v] : v \in DOMAIN subscriptions}

\* The set the loop iterates: line 108 guards the lookup of line 109.
listeners_for(u) ==
    IF u \in DOMAIN subscriptions THEN subscriptions[u] ELSE {}

send_data_to_subscribers(u, data, order) ==
    SendLoop(order, data, 1, << >>)


\* ----- create_processed_agent_data ---------------------------------------------
Exc(name) == [type |-> name]

\* PostInvalid with the validation run after the write: the offending
\* element is stored without a timestamp and the request is then rejected.
PostInvalid_late(body) ==
    /\ Quiet
    /\ LoopFree
    /\ FirstInvalid(body) # 0
    /\ nextId <= MaxId
    /\ LET raw == body[FirstInvalid(body)]
       IN  db' = db @@ (nextId :> [Row(Parse(RawItem(raw.road_state,
                                                     raw.agent_data.user_id,
                                                     "2024-01-01T12:00:00")))
                                   EXCEPT !.timestamp = ValueError])
    /\ nextId' = nextId + 1
    /\ last' = Resp("POST", 422, 0, Exc("RequestValidationError"), TRUE,
                    FirstInvalid(body), 0)
    /\ UNCHANGED <<subscriptions, ws, received, req>>

\* The framework validates the whole body against List[ProcessedAgentData]
\* before it calls the handler: one bad element rejects the request (422)
\* and the handler never runs.
PostInvalid(body) ==
    /\ Quiet
    /\ LoopFree
    /\ FirstInvalid(body) # 0
    /\ last' = Resp("POST", 422, 0, Exc("RequestValidationError"), FALSE,
                    FirstInvalid(body), 0)
    /\ UNCHANGED <<db, nextId, subscriptions, ws, received, req>>

\* A valid empty body: the loop of line 121 runs zero times.
PostEmpty ==
    /\ Quiet
    /\ LoopFree
    /\ last' = Resp("POST", 200, 0, NoBody, FALSE, 0, 0)
    /\ UNCHANGED <<db, nextId, subscriptions, ws, received, req>>

\* A valid body: the handler starts at the first element.
PostStart(body) ==
    /\ Quiet
    /\ LoopFree
    /\ Len(body) > 0
    /\ FirstInvalid(body) = 0
    /\ nextId + Len(body) - 1 <= MaxId
    /\ req' = [state |-> "commit", body |-> body,
               items |-> [k \in 1..Len(body) |-> Parse(body[k])],
               i |-> 1, ids |-> <<>>, atCommit |-> {}]
    /\ UNCHANGED <<db, nextId, subscriptions, ws, received, last>>

\* The id the Record Store assigns on create.  The persistence engine is
\* chosen by config.DATABASE_URL, outside the source: the ids come from a
\* sequence that only grows, so that an id is never reused.
NewId ==
    nextId

\* Lines 122-133: the row of element i is added and committed; the store
\* assigns its id.
CommitItem ==
    /\ Quiet
    /\ req.state = "commit"
    /\ db' = db @@ (NewId :> Row(req.items[req.i]))
    /\ nextId' = NewId + 1
    /\ req' = [req EXCEPT !.state = "publish", !.ids = Append(@, NewId),
                          !.atCommit = listeners_for(req.items[req.i].agent_data.user_id)]
    /\ UNCHANGED <<subscriptions, ws, received, last>>

\* CommitFails with a rollback of the whole batch.
CommitFails_rollback ==
    /\ Quiet
    /\ req.state = "commit"
    /\ db' = [k \in (DOMAIN db) \ {req.ids[j] : j \in 1..Len(req.ids)} |-> db[k]]
    /\ last' = Resp("POST", 500, 0, Exc("StoreFailure"), db' # db, req.i, Len(req.ids))
    /\ req' = Idle
    /\ UNCHANGED <<nextId, subscriptions, ws, received>>

\* Line 133 raises (the persistence engine fails): nothing is caught, the
\* handler ends with the exception.  Earlier elements were committed on
\* their own and are not touched.
CommitFails ==
    /\ Quiet
    /\ req.state = "commit"
    /\ last' = Resp("POST", 500, 0, Exc("StoreFailure"), FALSE, req.i, Len(req.ids))
    /\ req' = Idle
    /\ UNCHANGED <<db, nextId, subscriptions, ws, received>>

\* refresh left out: the handler goes on without re-reading the row.
refresh_skipped(id) ==
    TRUE

\* Line 134: refresh re-reads the committed row by primary key and raises
\* when the row is gone.
refresh(id) ==
    id \in DOMAIN db

\* Line 134 raises: a DELETE on a worker thread removed the row after the
\* commit.  Line 135 is not reached.
RefreshFails ==
    /\ Quiet
    /\ req.state = "publish"
    /\ ~refresh(req.ids[req.i])
    /\ last' = Resp("POST", 500, req.ids[req.i], Exc("InvalidRequestError"), FALSE,
                    req.i, Len(req.ids))
    /\ req' = Idle
    /\ UNCHANGED <<db, nextId, subscriptions, ws, received>>

\* A publish step that, when a send raises, stays at the same item and runs again.
PublishItem_retry ==
    /\ Quiet
    /\ req.state = "publish"
    /\ refresh(req.ids[req.i])
    /\ LET item == req.items[req.i]
           id   == req.ids[req.i]
           u    == item.agent_data.user_id
       IN  \E order \in Perms(listeners_for(u)) :
             LET out == send_data_to_subscribers(u, item, order)
             IN  /\ received' = [w \in Sockets |->
                                   IF w \in DOMAIN out.sent
                                   THEN Append(received[w],
                                               [id |-> id, user_id |-> u,
                                                late |-> w \notin req.atCommit,
                                                msg |-> out.sent[w]])
                                   ELSE received[w]]
                 /\ LET p == [id |-> id, user_id |-> u, data |-> item,
                               targets |-> listeners_for(u),
                               late |-> listeners_for(u) \ req.atCommit,
                               raised |-> out.raised, failedAt |-> out.failedAt,
                               stored |-> id \in DOMAIN db]
                    IN  IF out.raised
                        THEN /\ last' = Event("POST", 500, id, Exc(out.exc), FALSE,
                                              req.i, Len(req.ids), p)
                             /\ req' = req
                        ELSE IF req.i < Len(req.items)
                        THEN /\ last' = Event("POST", 0, id, NoBody, FALSE,
                                              req.i, Len(req.ids), p)
                             /\ req' = [req EXCEPT !.state = "commit", !.i = @ + 1]
                        ELSE /\ last' = Event("POST", 200, id, NoBody, FALSE,
                                              req.i, Len(req.ids), p)
                             /\ req' = Idle
    /\ UNCHANGED <<db, nextId, subscriptions, ws>>

\* Lines 134-135: refresh, then send_data_to_subscribers(user_id, item) with
\* the request's item.  An exception of the fan-out is not caught: it ends
\* the handler (500) and the rest of the body is not processed.  Otherwise
\* the loop goes on to the next element, or the handler returns None (200).
PublishItem ==
    /\ Quiet
    /\ req.state = "publish"
    /\ refresh(req.ids[req.i])
    /\ LET item == req.items[req.i]
           id   == req.ids[req.i]
           u    == item.agent_data.user_id
       IN  \E order \in Perms(listeners_for(u)) :
             LET out == send_data_to_subscribers(u, item, order)
             IN  /\ received' = [w \in Sockets |->
                                   IF w \in DOMAIN out.sent
                                   THEN Append(received[w],
                                               [id |-> id, user_id |-> u,
                                                late |-> w \notin req.atCommit,
                                                msg |-> out.sent[w]])
                                   ELSE received[w]]
                 /\ LET p == [id |-> id, user_id |-> u, data |-> item,
                               targets |-> listeners_for(u),
                               late |-> listeners_for(u) \ req.atCommit,
                               raised |-> out.raised, failedAt |-> out.failedAt,
                               stored |-> id \in DOMAIN db]
                    IN  IF out.raised
                        THEN /\ last' = Event("POST", 500, id, Exc(out.exc), FALSE,
                                              req.i, Len(req.ids), p)
                             /\ req' = Idle
                        ELSE IF req.i < Len(req.items)
                        THEN /\ last' = Event("POST", 0, id, NoBody, FALSE,
                                              req.i, Len(req.ids), p)
                             /\ req' = [req EXCEPT !.state = "commit", !.i = @ + 1]
                        ELSE /\ last' = Event("POST", 200, id, NoBody, FALSE,
                                              req.i, Len(req.ids), p)
                             /\ req' = Idle
    /\ UNCHANGED <<db, nextId, subscriptions, ws>>

\* ----- read / list / update / delete (worker threads) ---------------------------
Without(f, id) ==
    [k \in (DOMAIN f) \ {id} |-> f[k]]

\* Lines 145-156: first() returns None for an unknown id and line 149 reads
\* an attribute of it: AttributeError, answered as a generic 500.
read_processed_agent_data(id) ==
    /\ Quiet
    /\ last' = IF id \in DOMAIN db
               THEN Resp("GET", 200, id, ToModel(db[id]), FALSE, 0, 0)
               ELSE Resp("GET", 500, id, Exc("AttributeError"), FALSE, 0, 0)
    /\ UNCHANGED <<db, nextId, subscriptions, ws, received, req>>

\* Lines 162-173.
list_processed_agent_data ==
    /\ Quiet
    /\ last' = Resp("LIST", 200, 0,
                    [type |-> "list", rows |-> [k \in DOMAIN db |-> ToModel(db[k])]],
                    FALSE, 0, 0)
    /\ UNCHANGED <<db, nextId, subscriptions, ws, received, req>>

\* update that inserts the row when the id is unknown.
update_upsert(id, raw) ==
    /\ Quiet
    /\ IF ~IsValid(raw)
       THEN /\ db' = db
            /\ last' = Resp("PUT", 422, id, Exc("RequestValidationError"), FALSE, 0, 0)
       ELSE /\ db' = IF id \in DOMAIN db
                     THEN [db EXCEPT ![id] = Row(Parse(raw))]
                     ELSE db @@ (id :> Row(Parse(raw)))
            /\ last' = Resp("PUT", 200, id, ToModel(db'[id]), db' # db, 0, 0)
    /\ UNCHANGED <<nextId, subscriptions, ws, received, req>>

\* update that hands the new row to the listeners of its user.
update_notify(id, raw) ==
    /\ Quiet
    /\ IF ~IsValid(raw)
       THEN /\ db' = db
            /\ received' = received
            /\ last' = Resp("PUT", 422, id, Exc("RequestValidationError"), FALSE, 0, 0)
       ELSE IF id \notin DOMAIN db
       THEN /\ db' = db
            /\ received' = received
            /\ last' = Resp("PUT", 404, id, Exc("HTTPException"), FALSE, 0, 0)
       ELSE /\ db' = [db EXCEPT ![id] = Row(Parse(raw))]
            /\ received' = [w \in Sockets |->
                              IF w \in listeners_for(raw.agent_data.user_id)
                              THEN Append(received[w],
                                          [id |-> id, user_id |-> raw.agent_data.user_id,
                                           late |-> FALSE,
                                           msg |-> <<"json", jsonable(ToModel(db'[id]))>>])
                              ELSE received[w]]
            /\ last' = Resp("PUT", 200, id, ToModel(db'[id]), db' # db, 0, 0)
    /\ UNCHANGED <<nextId, subscriptions, ws, req>>

\* Lines 186-212; the body is validated before the handler runs.
update_processed_agent_data(id, raw) ==
    /\ Quiet
    /\ IF ~IsValid(raw)
       THEN /\ db' = db
            /\ last' = Resp("PUT", 422, id, Exc("RequestValidationError"), FALSE, 0, 0)
       ELSE IF id \notin DOMAIN db
       THEN /\ db' = db
            /\ last' = Resp("PUT", 404, id, Exc("HTTPException"), FALSE, 0, 0)
       ELSE /\ db' = [db EXCEPT ![id] = Row(Parse(raw))]
            /\ last' = Resp("PUT", 200, id, ToModel(db'[id]), db' # db, 0, 0)
    /\ UNCHANGED <<nextId, subscriptions, ws, received, req>>

\* Lines 224-239.
delete_processed_agent_data(id) ==
    /\ Quiet
    /\ IF id \notin DOMAIN db
       THEN /\ db' = db
            /\ last' = Resp("DELETE", 404, id, Exc("HTTPException"), FALSE, 0, 0)
       ELSE /\ db' = Without(db, id)
            /\ last' = Resp("DELETE", 200, id, ToModel(db[id]), TRUE, 0, 0)
    /\ UNCHANGED <<nextId, subscriptions, ws, received, req>>

\* The outcome of the last step (the response of lines 156, 173, 188, 212,
\* 226, 239, or an exception leaving a handler) has reached its caller.
Observed ==
    /\ ~Quiet
    /\ last' = NoEvent
    /\ UNCHANGED <<db, nextId, subscriptions, ws, received, req>>

\* ----- specification ---------------------------------------------------------
Next ==
    \/ \E w \in Sockets, u \in Agents : Connect(w, u)
    \/ \E w \in Sockets : ClientClose(w)
    \/ \E w \in Sockets : HandleDisconnect(w)
    \/ \E body \in Bodies : PostInvalid(body)
    \/ PostEmpty
    \/ \E body \in Bodies : PostStart(body)
    \/ CommitItem
    \/ CommitFails
    \/ RefreshFails
    \/ PublishItem
    \/ \E id \in ProbeIds : read_processed_agent_data(id)
    \/ list_processed_agent_data
    \/ \E id \in ProbeIds, raw \in RawItems : update_processed_agent_data(id, raw)
    \/ \E id \in ProbeIds : delete_processed_agent_data(id)
    \/ Observed

Spec == Init /\ [][Next]_vars

\* The scheduling the fair specification relies on.  The event loop runs
\* its ready callbacks in FIFO order, so the wake-up of a handler parked in
\* receive_text (line 101) runs once the handlers queued before it have
\* returned; the POST handler (lines 117-135) has no loop and no wait other
\* than the database calls, so each of its steps is eventually taken; every
\* response eventually reaches its caller.  The guards Quiet and LoopFree
\* switch these steps off and on again, hence strong fairness.
Fairness ==
    /\ \A w \in Sockets : SF_vars(HandleDisconnect(w))
    /\ SF_vars(CommitItem \/ CommitFails)
    /\ SF_vars(PublishItem \/ RefreshFails)
    /\ WF_vars(Observed)

FairSpec == Spec /\ Fairness


\* ----- properties --------------------------------------------------------------
Got(w, id) ==
    \E k \in 1..Len(received[w]) : received[w][k].id = id

FanOut == last.pub.id # 0

\* C2: every record created for an agent is delivered to each listener that
\* was registered for the agent when it was published and is still connected.
C2_EveryListenerReceives ==
    FanOut =>
        \A w \in last.pub.targets : ws[w].state = "open" => Got(w, last.pub.id)

\* C3: when the send to one listener fails during a publish, every other
\* listener registered for the agent at publish time still receives the record.
C3_OthersStillReceive ==
    (FanOut /\ last.pub.raised) =>
        \A w \in last.pub.targets \ {last.pub.failedAt} : Got(w, last.pub.id)

\* C4: a delivery failure while publishing an item of a batch is not visible
\* to the caller: the request does not end in an error and the handler goes
\* on with the later items of the batch.
C4_FanOutFailureInvisible ==
    (FanOut /\ last.pub.raised) =>
        /\ last.status \in {0, 200}
        /\ last.status = 0 => req.state = "commit"

\* C6: a listener never receives a record that was committed before the
\* listener was added to the registry: no message is delivered to, and no
\* fan-out is even addressed to, a listener that was not registered when
\* the record was committed.
C6_NoRetroactiveDelivery ==
    /\ \A w \in Sockets : \A k \in 1..Len(received[w]) : ~received[w][k].late
    /\ FanOut => last.pub.late = {}

\* C6 witness: a listener has just been registered for an agent of which a
\* record is stored, and has been sent nothing.
C6_Witness ==
    /\ last.op = "WS"
    /\ last.k > 0
    /\ ws[last.id].state = "open"
    /\ Stored(ws[last.id].user_id) # {}
    /\ received[last.id] = <<>>

C8_NotFoundNoChange ==
    [][ \A id \in ProbeIds :
          ( /\ id \notin DOMAIN db
            /\ last' # last
            /\ last'.op \in {"PUT", "DELETE"}
            /\ last'.id = id
            /\ last'.status # 422 )
          => (last'.status = 404 /\ db' = db) ]_vars

\* C8 witness: a 404 answer of update while the table holds another record.
C8_Witness ==
    /\ last.op = "PUT"
    /\ last.status = 404
    /\ DOMAIN db # {}
    /\ last.id \notin DOMAIN db

\* C9: read of an id that is not in the table answers with the same
\* not-found condition (404) as update and delete.
C9_ReadNotFound ==
    (last.op = "GET" /\ last.id \notin DOMAIN db) => last.status = 404

\* C10 as stated: when item k of a batch fails validation or storage, every
\* item before k has been committed.
C10_EarlierItemsCommitted ==
    ( /\ last.op = "POST"
      /\ last.body \in {Exc("RequestValidationError"), Exc("StoreFailure")} )
    => last.done = last.k - 1

\* C10 amended: a validation failure of any item rejects the whole batch
\* before any write; when the write of item k fails in storage, the request
\* ends in an error, every item before k has been committed and the failure
\* rolls none of them back.
C10_StorageFailureKeepsEarlierItems ==
    /\ [][ (req.state = "commit" /\ req'.state = "idle")
           => ( /\ last'.status = 500
                /\ last'.k = req.i
                /\ Len(req.ids) = req.i - 1
                /\ db' = db ) ]_vars
    /\ [][ (last' # last /\ last'.op = "POST" /\ last'.status = 422)
           => (db' = db /\ req' = req /\ req.state = "idle") ]_vars

\* C10 witness: the write of the second item of a batch failed after the
\* first was committed, and the first is in the table.
C10_Witness ==
    /\ last.op = "POST"
    /\ last.body = Exc("StoreFailure")
    /\ last.k = 2
    /\ last.done = 1
    /\ nextId - 1 \in DOMAIN db


\* C11: an item whose timestamp does not parse is rejected with a validation
\* error (422) before any write: the rejection stores no record, assigns no
\* id, calls no fan-out and starts no handler, and no stored record ever
\* has an unparsed timestamp; an item whose timestamp parses is accepted:
\* whenever the loop is free and the store has room, the request with that
\* item starts its handler.
C11_ValidationNoSideEffects ==
    /\ [](\A id \in DOMAIN db : db[id].timestamp # ValueError)
    /\ [][ (last' # last /\ last'.op = "POST" /\ last'.status = 422)
           => ( /\ db' = db
                /\ nextId' = nextId
                /\ received' = received
                /\ req' = req
                /\ last'.pub = NoPub
                /\ last'.k >= 1 ) ]_vars
    /\ []( (Quiet /\ LoopFree /\ nextId <= MaxId)
           => \A raw \in RawItems :
                IsValid(raw) <=> ENABLED PostStart(<<raw>>) )

\* C11 witness: a request was rejected for its second item while the table
\* holds a record and a listener is registered.
C11_Witness ==
    /\ last.op = "POST"
    /\ last.status = 422
    /\ last.k = 2
    /\ DOMAIN db # {}
    /\ \E w \in Sockets : ws[w].state = "open"


\* C12: a read by the id assigned to a created record, before any update or
\* delete of it, yields the submitted record in every field, and the
\* assigned id is new: it was never assigned before, also not to a record
\* that has been deleted since.
C12_CreateThenRead ==
    /\ [][ (req.state = "commit" /\ req'.state = "publish")
           => LET id == req'.ids[req.i]
              IN  /\ id \notin DOMAIN db
                  /\ id \in DOMAIN db'
                  /\ jsonable(ToModel(db'[id])) = req.body[req.i]
                  /\ id >= nextId
                  /\ nextId' > id ]_vars
    /\ [][nextId' >= nextId]_vars
    /\ [](\A id \in DOMAIN db : id < nextId)


\* C13: a publish delivers to the listeners that were registered for the
\* record's agent when it started, to all of them and to no one else, and
\* does not fail, whatever happens to the registry meanwhile.
C13_DeliversToSnapshot ==
    FanOut =>
        /\ ~last.pub.raised
        /\ {w \in Sockets : Got(w, last.pub.id)} = last.pub.targets


\* Where the registry holds connection w.
Registered(w) ==
    {u \in DOMAIN subscriptions : w \in subscriptions[u]}

\* C14: a listener whose connection has closed, at any moment (also while
\* the POST handler is between commit and publish, or right after a failed
\* publish), is eventually removed from the registry; once removed it stays
\* removed, and no fan-out after the removal is addressed to it.
C14_RemovalOnDisconnect ==
    /\ \A w \in Sockets :
         (ws[w].state = "lost") ~> (ws[w].state = "closed" /\ Registered(w) = {})
    /\ [](\A w \in Sockets : ws[w].state = "closed" => Registered(w) = {})
    /\ [](FanOut => \A w \in last.pub.targets : ws[w].state # "closed")

\* A connection was dropped and removed, and a later fan-out for an agent
\* that still has a listener runs.
C14_Witness ==
    /\ ws[1].state = "closed"
    /\ FanOut
    /\ last.pub.targets = {2}


\* The connections accepted for agent u whose disconnect has not been handled.
Live(u) ==
    {w \in Sockets : ws[w].state \in {"open", "lost"} /\ ws[w].user_id = u}

\* C15: at every moment the registry's set for an agent is exactly the
\* set of listeners accepted on a connection for that agent whose
\* disconnect has not yet been handled, and no listener is in two sets.
C15_RegistryConsistency ==
    /\ \A u \in Agents : listeners_for(u) = Live(u)
    /\ DOMAIN subscriptions \subseteq Agents
    /\ \A w \in Sockets : Cardinality(Registered(w)) <= 1

\* Two listeners of one agent are registered, one of them already dropped
\* by its peer but not yet handled.
C15_Witness ==
    \E u \in Agents :
        /\ Cardinality(listeners_for(u)) = 2
        /\ \E w \in listeners_for(u) : ws[w].state = "lost"


\* C16: a read, a list, an update (also one that overwrites the agent id of
\* the row) and a delete deliver nothing and leave the registry alone; a
\* fan-out is only ever run by a create, for a row it has committed.
C16_OnlyCreatePublishes ==
    /\ [][ (last' # last /\ last'.op \in {"GET", "LIST", "PUT", "DELETE"})
           => ( /\ received' = received
                /\ subscriptions' = subscriptions
                /\ ws' = ws
                /\ last'.pub = NoPub ) ]_vars
    /\ [][ received' # received
           => ( /\ last'.op = "POST"
                /\ last'.pub # NoPub ) ]_vars
    /\ [][ (last' # last /\ last'.pub # NoPub)
           => ( /\ last'.op = "POST"
                /\ req.state = "publish"
                /\ last'.pub.id = req.ids[req.i]
                /\ last'.pub.id < nextId ) ]_vars

\* An update has just rewritten a row, agent id included, while a listener
\* of the row's new agent is connected.
C16_Witness ==
    /\ last.op = "PUT"
    /\ last.status = 200
    /\ last.changed
    /\ \E w \in Sockets : /\ ws[w].state = "open"
                          /\ ws[w].user_id = last.body.agent_data.user_id


\* id was assigned to a row that has since been deleted (ids are not reused).
Deleted(id) ==
    id < nextId /\ id \notin DOMAIN db

\* C17: for an existing record, update(id, R') keeps the id, replaces the
\* other fields by those of R' so that the following read yields R', and
\* leaves the other records alone; delete(id) returns the removed record
\* and removes exactly that one, and every following read, update or
\* delete of that id reports not-found.
C17_RecordLifecycle ==
    /\ [][ \A id \in ProbeIds, raw \in RawItems :
             (id \in DOMAIN db /\ IsValid(raw) /\ update_processed_agent_data(id, raw))
             => ( /\ DOMAIN db' = DOMAIN db
                  /\ \A k \in DOMAIN db \ {id} : db'[k] = db[k]
                  /\ last'.status = 200
                  /\ jsonable(last'.body) = raw
                  /\ jsonable(ToModel(db'[id])) = raw ) ]_vars
    /\ [][ \A id \in ProbeIds :
             (id \in DOMAIN db /\ delete_processed_agent_data(id))
             => ( /\ db' = Without(db, id)
                  /\ last'.status = 200
                  /\ last'.body = ToModel(db[id]) ) ]_vars
    /\ [][ \A id \in ProbeIds :
             Deleted(id)
             => ( /\ read_processed_agent_data(id) => last'.status = 404
                  /\ delete_processed_agent_data(id) => last'.status = 404
                  /\ \A raw \in RawItems :
                       (IsValid(raw) /\ update_processed_agent_data(id, raw))
                       => last'.status = 404 ) ]_vars


\* C18: the record a create hands to publish is the persisted record and
\* carries the id the store assigned to it.
C18_PublishedRecordHasId ==
    FanOut =>
        /\ "id" \in DOMAIN last.pub.data
        /\ last.pub.data.id = last.pub.id


\* C19: no listener is delivered the same record twice, and a delivery
\* that failed is not tried again: every fan-out moves the handler off the
\* item it published, and a fan-out that raised ends the request.
C19_AtMostOnce ==
    /\ [](\A w \in Sockets : \A a, b \in DOMAIN received[w] :
            received[w][a].id = received[w][b].id => a = b)
    /\ []((FanOut /\ last.pub.raised) => req.state = "idle")
    /\ [][ (last' # last /\ last'.pub # NoPub)
           => ( /\ req'.state # "publish"
                /\ req'.state = "commit" => req'.i = req.i + 1 ) ]_vars

\* A delivery has just failed with a second listener of the agent registered.
C19_Witness ==
    /\ FanOut
    /\ last.pub.raised
    /\ last.pub.failedAt # NoSocket
    /\ Cardinality(last.pub.targets) = 2


\* C20: a listener registered for agent A is only ever addressed with, and
\* only ever receives, records created with agent id A; a create for an
\* agent that has no registered listener addresses no one and does not fail.
C20_NoCrossAgentDelivery ==
    /\ \A w \in Sockets : \A k \in DOMAIN received[w] :
         ws[w].state \in {"open", "lost"} => received[w][k].user_id = ws[w].user_id
    /\ FanOut =>
         /\ last.pub.user_id = last.pub.data.agent_data.user_id
         /\ \A w \in last.pub.targets : ws[w].user_id = last.pub.user_id
    /\ (FanOut /\ Live(last.pub.user_id) = {}) =>
         /\ last.pub.targets = {}
         /\ ~last.pub.raised
         /\ last.status \in {0, 200}

\* A create for an agent without listeners has answered 200 while a
\* listener of another agent is connected.
C20_Witness ==
    /\ FanOut
    /\ last.status = 200
    /\ last.pub.targets = {}
    /\ \E w \in Sockets : ws[w].state = "open" /\ ws[w].user_id # last.pub.user_id

====
